---- MODULE Spec2Model ----
(***************************************************************************)
(* Model of src/downloader.py: the batch clone pipeline of the GitHub      *)
(* addon downloader (extract_repo_name, clone_repository,                  *)
(* download_repositories) running on a ThreadPoolExecutor, over a small    *)
(* model of the destination directory tree.                                *)
(*                                                                         *)
(* Strings are sequences of one-character strings, so that rstrip,         *)
(* endswith, split and sorted are computed character by character.         *)
(***************************************************************************)
EXTENDS Integers, Sequences, FiniteSets, TLC

(***************************************************************************)
(* Bounds of the model.                                                    *)
(***************************************************************************)
\* largest batch (number of URLs handed to download_repositories)
MaxUrls == 2

(***************************************************************************)
(* Characters and strings.                                                 *)
(***************************************************************************)
\* the characters the model uses, in ascending code point order
Alphabet ==
  << " ", "\"", "'", ")", ".", "/", ":",
     "a", "b", "c", "d", "g", "h", "i", "m", "o", "p", "s", "t", "u" >>

\* ord(c), up to an order-preserving renumbering
CodePoint(c) == CHOOSE i \in 1..Len(Alphabet) : Alphabet[i] = c

\* str.__lt__: lexicographic order by code point
RECURSIVE StrLess(_, _)
StrLess(s, t) ==
  IF Len(t) = 0 THEN FALSE
  ELSE IF Len(s) = 0 THEN TRUE
  ELSE IF s[1] # t[1] THEN CodePoint(s[1]) < CodePoint(t[1])
  ELSE StrLess(Tail(s), Tail(t))

\* str.rstrip(c) for a single character c
RECURSIVE RStrip(_, _)
RStrip(s, c) ==
  IF Len(s) > 0 /\ s[Len(s)] = c THEN RStrip(SubSeq(s, 1, Len(s) - 1), c) ELSE s

\* str.endswith(suffix)
EndsWith(s, suffix) ==
  /\ Len(s) >= Len(suffix)
  /\ SubSeq(s, Len(s) - Len(suffix) + 1, Len(s)) = suffix

\* str.startswith(prefix)
StartsWith(s, prefix) ==
  /\ Len(s) >= Len(prefix)
  /\ SubSeq(s, 1, Len(prefix)) = prefix

\* s.split(c)[-1]: what follows the last c of s (all of s when it has none)
RECURSIVE LastSegment(_, _)
LastSegment(s, c) ==
  IF Len(s) = 0 THEN << >>
  ELSE IF s[Len(s)] = c THEN << >>
  ELSE Append(LastSegment(SubSeq(s, 1, Len(s) - 1), c), s[Len(s)])

DotGit == << ".", "g", "i", "t" >>

(***************************************************************************)
(* extract_repo_name (lines 53-70).                                        *)
(***************************************************************************)
\* a slip: '.git' is removed before the trailing slashes
extract_repo_name_git_first(url) ==
  LET u1 == IF EndsWith(url, DotGit) THEN SubSeq(url, 1, Len(url) - 4) ELSE url
  IN  LastSegment(RStrip(u1, "/"), "/")

extract_repo_name(url) ==
  LET u1 == RStrip(url, "/")
      u2 == IF EndsWith(u1, DotGit) THEN SubSeq(u1, 1, Len(u1) - 4) ELSE u1
  IN  LastSegment(u2, "/")

(***************************************************************************)
(* The pattern of extract_github_urls (line 46), as a match of a whole     *)
(* string: https?://github\.com/[^\s/]+/[^\s)"']+(?:\.git)? followed by    *)
(* the end of the text.  A string is a possible element of the returned    *)
(* set exactly if it matches as a whole.                                   *)
(***************************************************************************)
Http == << "h", "t", "t", "p", ":", "/", "/", "g", "i", "t", "h", "u", "b", ".", "c", "o", "m", "/" >>
Https == << "h", "t", "t", "p", "s", ":", "/", "/", "g", "i", "t", "h", "u", "b", ".", "c", "o", "m", "/" >>

IsSpace(c) == c = " "

\* owner/rest after the host: [^\s/]+ / [^\s)"']+
PathMatches(p) ==
  \E k \in 1..Len(p) :
     /\ k > 1
     /\ k < Len(p)
     /\ p[k] = "/"
     /\ \A i \in 1..(k - 1) : ~IsSpace(p[i]) /\ p[i] # "/"
     /\ \A i \in (k + 1)..Len(p) : ~IsSpace(p[i]) /\ p[i] \notin {")", "\"", "'"}

GithubPatternMatches(s) ==
  \/ StartsWith(s, Https) /\ PathMatches(SubSeq(s, Len(Https) + 1, Len(s)))
  \/ StartsWith(s, Http) /\ PathMatches(SubSeq(s, Len(Http) + 1, Len(s)))

(***************************************************************************)
(* The texts the batches are drawn from.  Candidates are strings a pasted  *)
(* text can hold; the batch of download_repositories is a set of those the *)
(* pattern accepts (main, lines 175 and 236).                              *)
(***************************************************************************)
Candidates ==
  { Https \o << "a", "/", "b" >>,
    Https \o << "c", "/", "b" >>,
    Https \o << "a", "/", "b", ".", "g", "i", "t" >>,
    Https \o << "c", "/", "d" >>,
    Https \o << "a", "/", ".", "g", "i", "t" >>,
    Https \o << "a" >>,
    << "g", "i", "t", "h", "u", "b", ".", "c", "o", "m", "/", "a", "/", "b" >> }

Universe == { s \in Candidates : GithubPatternMatches(s) }

(***************************************************************************)
(* Paths under the destination directory.  A path is the sequence of the   *)
(* components below dest_path: << >> is dest_path itself.                  *)
(***************************************************************************)
Root == << >>

\* a slip: the name is left out of the target path
JoinPath_no_name(dest, name) == dest

\* dest_path / repo_name (line 85): pathlib drops an empty or '.' component
JoinPath(dest, name) ==
  IF name = << >> \/ name = << "." >> THEN dest ELSE Append(dest, name)

\* lines 84-85: the target of the task of url
repo_path(url) == JoinPath(Root, extract_repo_name(url))

Paths == {Root} \cup { repo_path(u) : u \in Universe }

\* the paths of the subtree of p
Subtree(p) == { q \in Paths : Len(q) >= Len(p) /\ SubSeq(q, 1, Len(p)) = p }

\* what a directory holds: nothing of its own, the files of the folder that was
\* there before the batch, or the working tree cloned from a URL
Nothing == << >>
Old == << "o", "l", "d" >>

\* the module global read at line 113: 12 as shipped (line 27)
MAX_WORKERS == 12

\* the values the global is given: the shipped one, and small ones under which a
\* batch of the model is larger than the cap
WorkerCaps == {1, 2, MAX_WORKERS}

VARIABLES
  urls,          \* the argument urls of download_repositories
  cap,           \* the value of the global MAX_WORKERS at the call
  present,       \* the directories that exist under (and including) dest_path
  holds,         \* what each directory holds
  mainpc,        \* where download_repositories is
  max_workers,   \* line 113
  url_list,      \* line 118
  submitted,     \* how many of url_list have been submitted (line 121)
  queue,         \* the executor's work queue
  pc,            \* where each task is
  ret,           \* what each call of clone_repository ended with
  why,           \* the error (or "ok") each call ended on
  started,       \* how often clone_repository was entered for each url
  replaced,      \* the tasks that removed an existing target (line 91)
  snap,          \* as_completed: the futures found finished when it is entered
  pending,       \* as_completed: the futures still waited for
  waiterq,       \* as_completed: the futures that finished since, in order
  yielded,       \* how often the loop body ran for each url
  successful,    \* line 114
  failed,        \* line 115
  failed_repos,  \* line 116
  result,        \* what download_repositories returned
  at_entry,      \* the futures as_completed found finished when it was entered
  finished_order,\* the urls in the order their calls of clone_repository ended
  choice,        \* main: the option picked for an existing folder (line 199)
  sidepc,        \* where main is before the batch, or a function applied alone
  stdin,         \* main: the lines input() is still to return, then end of file
  lines,         \* main: lines (line 154)
  text_input,    \* main: text_input (line 166)
  ex_text,       \* extract_github_urls: text
  ex_urls,       \* extract_github_urls: urls
  nm_url,        \* extract_repo_name: url
  nm_name        \* extract_repo_name: repo_name

vars ==
  << urls, cap, present, holds, mainpc, max_workers, url_list, submitted, queue,
     pc, ret, why, started, replaced, snap, pending, waiterq, yielded, successful,
     failed, failed_repos, result, at_entry, finished_order, choice, sidepc, stdin, lines,
     text_input, ex_text, ex_urls, nm_url, nm_name >>

sidevars == << sidepc, stdin, lines, text_input, ex_text, ex_urls, nm_url, nm_name >>
fsvars == << present, holds >>
taskvars == << pc, ret, why, started, replaced, queue, waiterq, finished_order >>
mainvars ==
  << mainpc, max_workers, url_list, submitted, snap, pending, yielded, successful,
     failed, failed_repos, result, at_entry >>

NoResult == << >>

\* sorted(urls) (line 118)
RECURSIVE sorted(_)
sorted(S) ==
  IF S = {} THEN << >>
  ELSE LET m == CHOOSE x \in S : \A y \in S \ {x} : StrLess(x, y)
       IN  << m >> \o sorted(S \ {m})

\* the tasks that are inside clone_repository
Running == { u \in urls : pc[u] \in {"exists", "rmtree", "clone"} }

\* nothing is read, and no function is applied on its own
SideIdle ==
  /\ sidepc = "idle"
  /\ stdin = << >>
  /\ lines = << >>
  /\ text_input = << >>
  /\ ex_text = << >>
  /\ ex_urls = {}
  /\ nm_url = << >>
  /\ nm_name = << >>

\* download_repositories is called with a set the pattern can return and a
\* destination that exists; the folders already in it are at the targets of
\* the batch or, for the empty batch, anywhere
Init ==
  /\ SideIdle
  /\ choice = "none"
  /\ finished_order = << >>
  /\ urls \in { S \in SUBSET Universe : Cardinality(S) <= MaxUrls }
  /\ cap \in WorkerCaps
  /\ \E S \in SUBSET ((IF urls = {} THEN Paths ELSE { repo_path(u) : u \in urls }) \ {Root}) :
        /\ present = {Root} \cup S
        /\ holds = [p \in Paths |-> IF p \in S THEN Old ELSE Nothing]
  /\ mainpc = "entry"
  /\ max_workers = 0
  /\ url_list = << >>
  /\ submitted = 0
  /\ queue = << >>
  /\ pc = [u \in urls |-> "unsubmitted"]
  /\ ret = [u \in urls |-> "none"]
  /\ why = [u \in urls |-> "none"]
  /\ started = [u \in urls |-> 0]
  /\ replaced = {}
  /\ snap = {}
  /\ pending = {}
  /\ waiterq = << >>
  /\ yielded = [u \in urls |-> 0]
  /\ successful = 0
  /\ failed = 0
  /\ failed_repos = << >>
  /\ at_entry = {}
  /\ result = NoResult

(***************************************************************************)
(* download_repositories (lines 107-138): the calling thread.              *)
(***************************************************************************)
\* a slip: the pool is sized by the batch, whatever the cap
min_workers_uncapped(w, total) == total

\* a slip: one thread fewer than the cap and the batch allow
min_workers_less_one(w, total) == (IF w < total THEN w ELSE total) - 1

\* min(MAX_WORKERS, total) (line 113)
min_workers(w, total) == IF w < total THEN w ELSE total

\* a slip: the last URL of the sorted list is left out
url_list_drops_last(S) == SubSeq(sorted(S), 1, Cardinality(S) - 1)

\* line 118
make_url_list(S) == sorted(S)

\* a slip: the empty batch is not told apart
never_empty(total) == FALSE

\* line 109
batch_is_empty(total) == total = 0

\* lines 109-118: the empty batch returns at once; otherwise the pool is sized
\* and the URLs are sorted
Entry ==
  /\ mainpc = "entry"
  /\ IF batch_is_empty(Cardinality(urls))
       THEN /\ mainpc' = "returned"
            /\ result' = << 0, 0, << >> >>
            /\ UNCHANGED << max_workers, url_list >>
       ELSE /\ mainpc' = "submit"
            /\ max_workers' = min_workers(cap, Cardinality(urls))
            /\ url_list' = make_url_list(urls)
            /\ UNCHANGED result
  /\ UNCHANGED << urls, cap, choice, sidevars, fsvars, taskvars, submitted, snap, pending, yielded,
                  successful, failed, failed_repos, at_entry >>

\* line 121: executor.submit of the next URL of url_list
Submit ==
  /\ mainpc = "submit"
  /\ submitted < Len(url_list)
  /\ LET u == url_list[submitted + 1]
     IN  /\ pc' = [pc EXCEPT ![u] = "queued"]
         /\ queue' = Append(queue, u)
  /\ submitted' = submitted + 1
  /\ UNCHANGED << urls, cap, choice, sidevars, fsvars, mainpc, max_workers, url_list, ret, why,
                  started, replaced, snap, pending, waiterq, yielded, successful,
                  failed, failed_repos, result, at_entry, finished_order >>

\* line 123: as_completed(future_map) is entered once every URL is submitted; it
\* splits the futures into those already finished and those still pending
AsCompleted ==
  /\ mainpc = "submit"
  /\ submitted = Len(url_list)
  /\ mainpc' = "loop"
  /\ snap' = { u \in urls : pc[u] = "done" }
  /\ at_entry' = { u \in urls : pc[u] = "done" }
  /\ pending' = { u \in urls : pc[u] \in {"queued", "exists", "rmtree", "clone"} }
  /\ UNCHANGED << urls, cap, choice, sidevars, fsvars, taskvars, max_workers, url_list, submitted,
                  yielded, successful, failed, failed_repos, result >>

\* what a call of clone_repository can end with when an exception leaves it:
\* subclasses of Exception raised outside the try block's protection
RaisedClasses == {"UnicodeEncodeError", "MemoryError"}

\* the subclasses of Exception among the exceptions of the model
IsException(exc) ==
  exc \in {"GitCommandError", "FileNotFoundError", "PermissionError", "OSError"} \cup RaisedClasses

\* a slip: line 127 catches the clone error only
except_GitCommandError(exc) == exc = "GitCommandError"

\* line 127: except Exception
except_Exception(exc) == IsException(exc)

\* lines 125-127: future.result() raises and no clause of the loop catches it
Propagates(u) == ret[u] = "raised" /\ ~except_Exception(why[u])

\* a slip: only the futures already finished are iterated
LoopDone_finished_only == snap = {}

\* as_completed is exhausted: nothing finished is left to yield, nothing pending
LoopDone == snap = {} /\ pending = {}

\* the future as_completed yields next: any of those finished when it was
\* entered, then the others in the order they finish
YieldsNext(u) ==
  IF snap # {} THEN u \in snap ELSE waiterq # << >> /\ u = Head(waiterq)

\* lines 125-129: future.result(), an exception counted as a failure
future_ok(u) == ret[u] = "True"

\* a slip: a failure is listed but not counted
count_failed_forgets(n) == n

\* line 134
count_failed(n) == n + 1

\* a slip: the failed URL is put at the front of the list
record_failed_front(l, u) == << u >> \o l

\* a slip: the failed URL is listed twice
record_failed_twice(l, u) == l \o << u, u >>

\* line 135
record_failed(l, u) == Append(l, u)

\* a slip: a success is counted twice
count_successful_twice(n) == n + 2

\* line 132
count_successful(n) == n + 1

\* lines 123-135: one iteration of the loop
LoopBody ==
  /\ mainpc = "loop"
  /\ ~LoopDone
  /\ \E u \in urls :
       /\ YieldsNext(u)
       /\ IF snap # {}
            THEN snap' = snap \ {u} /\ UNCHANGED << pending, waiterq >>
            ELSE /\ waiterq' = Tail(waiterq)
                 /\ pending' = pending \ {u}
                 /\ UNCHANGED snap
       /\ yielded' = [yielded EXCEPT ![u] = @ + 1]
       /\ IF Propagates(u)
            THEN /\ mainpc' = "propagated"
                 /\ UNCHANGED << successful, failed, failed_repos >>
            ELSE /\ mainpc' = mainpc
                 /\ IF future_ok(u)
                      THEN /\ successful' = count_successful(successful)
                           /\ UNCHANGED << failed, failed_repos >>
                      ELSE /\ failed' = count_failed(failed)
                           /\ failed_repos' = record_failed(failed_repos, u)
                           /\ UNCHANGED successful
  /\ UNCHANGED << urls, cap, choice, sidevars, fsvars, max_workers, url_list, submitted,
                  queue, pc, ret, why, started, replaced, result, at_entry,
                  finished_order >>

\* the loop ends
LoopExit ==
  /\ mainpc = "loop"
  /\ LoopDone
  /\ mainpc' = "shutdown"
  /\ UNCHANGED << urls, cap, choice, sidevars, fsvars, taskvars, max_workers, url_list, submitted,
                  snap, pending, yielded, successful, failed, failed_repos, result,
                  at_entry >>

\* lines 120 and 138: leaving the with block joins the pool (shutdown(wait=True)),
\* then the result is returned
Return ==
  /\ mainpc = "shutdown"
  /\ queue = << >>
  /\ Running = {}
  /\ mainpc' = "returned"
  /\ result' = << successful, failed, failed_repos >>
  /\ UNCHANGED << urls, cap, choice, sidevars, fsvars, taskvars, max_workers, url_list, submitted,
                  snap, pending, yielded, successful, failed, failed_repos,
                  at_entry >>

(***************************************************************************)
(* clone_repository (lines 73-104), run by the threads of the pool.        *)
(***************************************************************************)
\* the exceptions of the model are all subclasses of Exception
ExceptionClasses ==
  {"GitCommandError", "FileNotFoundError", "PermissionError", "OSError"}

\* a slip: only the clone error is caught
except_git_only(exc) == IF exc = "GitCommandError" THEN "False" ELSE "raised"

\* lines 98-104: what the call ends with when exc is raised inside the try block
except_clauses(exc) ==
  IF exc = "GitCommandError" THEN "False"
  ELSE IF exc \in ExceptionClasses THEN "False"
  ELSE "raised"

\* the call of clone_repository for u ends with r; its future is set, and
\* as_completed (when it is waiting) is told
Finish(u, r, w) ==
  /\ pc' = [pc EXCEPT ![u] = "done"]
  /\ ret' = [ret EXCEPT ![u] = r]
  /\ why' = [why EXCEPT ![u] = w]
  /\ waiterq' = IF mainpc = "loop" /\ u \in pending THEN Append(waiterq, u) ELSE waiterq
  /\ finished_order' = Append(finished_order, u)

\* a directory with nothing in it
DirEmpty(p) ==
  /\ holds[p] = Nothing
  /\ \A q \in Subtree(p) \ {p} : q \notin present

\* lines 120-121 and 84-85: a thread of the pool (at most max_workers of them)
\* takes the oldest queued work item and enters clone_repository
RunTask(u) ==
  /\ queue # << >>
  /\ u = Head(queue)
  /\ Cardinality(Running) < max_workers
  /\ queue' = Tail(queue)
  /\ pc' = [pc EXCEPT ![u] = "exists"]
  /\ started' = [started EXCEPT ![u] = @ + 1]
  /\ UNCHANGED << urls, cap, choice, sidevars, fsvars, mainvars, ret, why, replaced, waiterq,
                  finished_order >>

\* line 89: repo_path.exists()
CheckExists(u) ==
  /\ pc[u] = "exists"
  /\ \/ /\ repo_path(u) \in present
        /\ pc' = [pc EXCEPT ![u] = "rmtree"]
        /\ UNCHANGED << ret, why, waiterq, finished_order >>
     \/ /\ repo_path(u) \notin present
        /\ pc' = [pc EXCEPT ![u] = "clone"]
        /\ UNCHANGED << ret, why, waiterq, finished_order >>
     \/ Finish(u, except_clauses("PermissionError"), "stat")
  /\ UNCHANGED << urls, cap, choice, sidevars, fsvars, mainvars, queue, started, replaced >>

\* a slip: rmtree(repo_path, ignore_errors=True), the clone goes on after a
\* removal that failed
Rmtree_ignore_errors(u) ==
  /\ pc[u] = "rmtree"
  /\ pc' = [pc EXCEPT ![u] = "clone"]
  /\ \/ /\ repo_path(u) \in present
        /\ present' = present \ Subtree(repo_path(u))
        /\ holds' = [q \in Paths |-> IF q \in Subtree(repo_path(u)) THEN Nothing ELSE holds[q]]
        /\ replaced' = replaced \cup {u}
     \/ UNCHANGED << fsvars, replaced >>
  /\ UNCHANGED << urls, cap, choice, sidevars, mainvars, queue, started, ret, why, waiterq,
                  finished_order >>

\* line 91: shutil.rmtree(repo_path): the whole subtree goes, or the call raises
\* (the directory is gone meanwhile, or the removal is denied)
Rmtree(u) ==
  /\ pc[u] = "rmtree"
  /\ \/ /\ repo_path(u) \in present
        /\ present' = present \ Subtree(repo_path(u))
        /\ holds' = [q \in Paths |-> IF q \in Subtree(repo_path(u)) THEN Nothing ELSE holds[q]]
        /\ replaced' = replaced \cup {u}
        /\ pc' = [pc EXCEPT ![u] = "clone"]
        /\ UNCHANGED << ret, why, waiterq, finished_order >>
     \/ /\ repo_path(u) \in present
        /\ Finish(u, except_clauses("PermissionError"), "denied")
        /\ UNCHANGED << fsvars, replaced >>
     \/ /\ repo_path(u) \notin present
        /\ Finish(u, except_clauses("FileNotFoundError"), "vanished")
        /\ UNCHANGED << fsvars, replaced >>
  /\ UNCHANGED << urls, cap, choice, sidevars, mainvars, queue, started >>

\* lines 94-96: Repo.clone_from(url, str(repo_path)): git refuses a target that
\* exists and is not empty; otherwise it creates the target (and the
\* directories leading to it) and fills it, or fails and leaves nothing behind
CloneFrom(u) ==
  /\ pc[u] = "clone"
  /\ \/ /\ repo_path(u) \in present
        /\ ~DirEmpty(repo_path(u))
        /\ Finish(u, except_clauses("GitCommandError"), "occupied")
        /\ UNCHANGED fsvars
     \/ /\ repo_path(u) \notin present \/ DirEmpty(repo_path(u))
        /\ present' = present \cup {repo_path(u), Root}
        /\ holds' = [holds EXCEPT ![repo_path(u)] = u]
        /\ Finish(u, "True", "ok")
     \/ /\ repo_path(u) \notin present \/ DirEmpty(repo_path(u))
        /\ Finish(u, except_clauses("GitCommandError"), "remote")
        /\ UNCHANGED fsvars
     \/ /\ Finish(u, except_clauses("OSError"), "oserror")
        /\ UNCHANGED fsvars
  /\ UNCHANGED << urls, cap, choice, sidevars, mainvars, queue, started, replaced >>

Next ==
  \/ Entry
  \/ Submit
  \/ AsCompleted
  \/ LoopBody
  \/ LoopExit
  \/ Return
  \/ \E u \in urls : RunTask(u)
  \/ \E u \in urls : CheckExists(u)
  \/ \E u \in urls : Rmtree(u)
  \/ \E u \in urls : CloneFrom(u)

Spec == Init /\ [][Next]_vars

(***************************************************************************)
(* Scheduling: the calling thread runs on, a free thread of the pool takes *)
(* the next work item, and every step of a started call of                 *)
(* clone_repository (the existence test, the removal, the clone) ends.     *)
(***************************************************************************)
\* the steps of the calling thread
MainStep == Entry \/ Submit \/ AsCompleted \/ LoopBody \/ LoopExit \/ Return

\* the steps of the call of clone_repository for u, once started
TaskStep(u) == u \in urls /\ (CheckExists(u) \/ Rmtree(u) \/ CloneFrom(u))

\* a thread of the pool takes the work item of u
TaskStart(u) == u \in urls /\ RunTask(u)

Fairness ==
  /\ WF_vars(MainStep)
  /\ \A u \in Universe : WF_vars(TaskStart(u)) /\ WF_vars(TaskStep(u))

SpecLive == Init /\ [][Next]_vars /\ Fairness

(***************************************************************************)
(* A call of clone_repository that ends with an exception: lines 84-85 and *)
(* the print calls of the except clauses (lines 99-103) are not protected  *)
(* by the try block.                                                       *)
(***************************************************************************)
\* the call for u ends with an exception: at lines 84-85, or in an except
\* clause after the existence test, the removal or the clone failed
TaskRaises(u) ==
  /\ pc[u] \in {"exists", "rmtree", "clone"}
  /\ \E exc \in RaisedClasses : Finish(u, "raised", exc)
  /\ UNCHANGED << urls, cap, choice, sidevars, fsvars, mainvars, queue, started, replaced >>

NextRaise ==
  \/ Next
  \/ \E u \in urls : TaskRaises(u)

SpecRaise == Init /\ [][NextRaise]_vars

(***************************************************************************)
(* The functions of the module applied on their own: no batch is running   *)
(* and the destination holds nothing.                                      *)
(***************************************************************************)
BatchIdle ==
  /\ urls = {}
  /\ cap = MAX_WORKERS
  /\ present = {Root}
  /\ holds = [p \in Paths |-> Nothing]
  /\ mainpc = "idle"
  /\ max_workers = 0
  /\ url_list = << >>
  /\ submitted = 0
  /\ queue = << >>
  /\ pc = << >>
  /\ ret = << >>
  /\ why = << >>
  /\ started = << >>
  /\ replaced = {}
  /\ snap = {}
  /\ pending = {}
  /\ waiterq = << >>
  /\ yielded = << >>
  /\ successful = 0
  /\ failed = 0
  /\ failed_repos = << >>
  /\ at_entry = {}
  /\ finished_order = << >>
  /\ result = NoResult
  /\ choice = "none"

batchvars ==
  << urls, cap, fsvars, taskvars, mainvars, choice >>

\* the strings of the pieces of ps, one after the other
RECURSIVE Concat(_)
Concat(ps) == IF Len(ps) = 0 THEN << >> ELSE Head(ps) \o Concat(Tail(ps))

\* the sequences of at most n elements of S
SeqsUpTo(S, n) == UNION { [1..k -> S] : k \in 0..n }

(***************************************************************************)
(* extract_repo_name applied to the arguments built of at most MaxTokens   *)
(* tokens after the host, or with no host at all.                          *)
(***************************************************************************)
MaxTokens == 5

NameTokens == { << "a" >>, << "b" >>, << "/" >>, << "." >>, DotGit }

NameInputs ==
  { pre \o Concat(ts) : pre \in { << >>, Https }, ts \in SeqsUpTo(NameTokens, MaxTokens) }

InitNamer ==
  /\ BatchIdle
  /\ sidepc = "name_call"
  /\ nm_url \in NameInputs
  /\ nm_name = << >>
  /\ stdin = << >>
  /\ lines = << >>
  /\ text_input = << >>
  /\ ex_text = << >>
  /\ ex_urls = {}

\* lines 53-70: the call returns
NameCall ==
  /\ sidepc = "name_call"
  /\ nm_name' = extract_repo_name(nm_url)
  /\ sidepc' = "name_done"
  /\ UNCHANGED << batchvars, nm_url, stdin, lines, text_input, ex_text, ex_urls >>

NextNamer == NameCall

SpecNamer == InitNamer /\ [][NextNamer]_vars

(***************************************************************************)
(* extract_github_urls (lines 30-50) applied to the texts built of at most *)
(* MaxPieces pieces.  re.findall scans the text from the left and takes    *)
(* the matches one after the other, none overlapping the one before.  The  *)
(* model has no upper-case letter, so re.IGNORECASE has nothing to do.     *)
(***************************************************************************)
MaxPieces == 3

Bare == << "g", "i", "t", "h", "u", "b", ".", "c", "o", "m", "/" >>

TextPieces ==
  { Https \o << "a", "/", "b" >>,
    Http \o << "a", "/", "b" >>,
    Bare \o << "a", "/", "b" >>,
    Https \o << "a" >>,
    << "/", "c" >>,
    DotGit,
    << " " >>,
    << ")" >> }

ExtractTexts == { Concat(ps) : ps \in SeqsUpTo(TextPieces, MaxPieces) }

\* the last index of the longest run of characters of t from i on that are
\* all outside the set stop and no white space (i - 1 when the run is empty)
RECURSIVE RunEnd(_, _, _)
RunEnd(t, i, stop) ==
  IF i <= Len(t) /\ ~IsSpace(t[i]) /\ t[i] \notin stop
    THEN RunEnd(t, i + 1, stop)
    ELSE i - 1

\* the text has the string p at index i
HasAt(t, i, p) == i + Len(p) - 1 <= Len(t) /\ SubSeq(t, i, i + Len(p) - 1) = p

\* line 46: the index at which the match of github_pattern that starts at i
\* ends, 0 when there is none.  [^\s/]+ takes the longest run without "/",
\* which a "/" has to follow; [^\s)"']+ takes the longest run it can, after
\* which (?:\.git)? matches nothing and the lookahead holds.
MatchEnd(t, i) ==
  LET host == IF HasAt(t, i, Https) THEN Len(Https)
              ELSE IF HasAt(t, i, Http) THEN Len(Http)
              ELSE 0
      o1 == i + host
      o2 == RunEnd(t, o1, {"/"})
      r1 == o2 + 2
      r2 == RunEnd(t, r1, {")", "\"", "'"})
  IN  IF host = 0 THEN 0
      ELSE IF o2 < o1 THEN 0
      ELSE IF ~(o2 + 1 <= Len(t) /\ t[o2 + 1] = "/") THEN 0
      ELSE IF r2 < r1 THEN 0
      ELSE r2

\* line 48: re.findall(github_pattern, text) from index i on, as a set
RECURSIVE findall(_, _)
findall(t, i) ==
  IF i > Len(t) THEN {}
  ELSE IF MatchEnd(t, i) > 0
         THEN { SubSeq(t, i, MatchEnd(t, i)) } \cup findall(t, MatchEnd(t, i) + 1)
         ELSE findall(t, i + 1)

\* lines 46-50
extract_github_urls(text) == findall(text, 1)

InitExtract ==
  /\ BatchIdle
  /\ sidepc = "extract_call"
  /\ ex_text \in ExtractTexts
  /\ ex_urls = {}
  /\ nm_url = << >>
  /\ nm_name = << >>
  /\ stdin = << >>
  /\ lines = << >>
  /\ text_input = << >>

\* lines 30-50: the call returns
ExtractCall ==
  /\ sidepc = "extract_call"
  /\ ex_urls' = extract_github_urls(ex_text)
  /\ sidepc' = "extract_done"
  /\ UNCHANGED << batchvars, ex_text, nm_url, nm_name, stdin, lines, text_input >>

NextExtract == ExtractCall

SpecExtract == InitExtract /\ [][NextExtract]_vars

(***************************************************************************)
(* main, lines 154-170: the lines of the pasted text are read with input() *)
(* until the loop breaks or the input ends.  stdin holds the lines input() *)
(* is still to return; when it is empty input() raises EOFError.           *)
(***************************************************************************)
MaxInput == 4

EmptyLine == << >>

InputLines == { EmptyLine, << "a" >>, << " " >> }

InitInput ==
  /\ BatchIdle
  /\ sidepc = "reading"
  /\ stdin \in SeqsUpTo(InputLines, MaxInput)
  /\ lines = << >>
  /\ text_input = << >>
  /\ ex_text = << >>
  /\ ex_urls = {}
  /\ nm_url = << >>
  /\ nm_name = << >>

\* lines 157-162: input() returns a line; a second empty line in a row is
\* dropped together with the loop, any other line is appended
ReadLine ==
  /\ sidepc = "reading"
  /\ stdin # << >>
  /\ stdin' = Tail(stdin)
  /\ LET line == Head(stdin)
     IN  IF line = EmptyLine /\ lines # << >> /\ lines[Len(lines)] = EmptyLine
           THEN /\ lines' = SubSeq(lines, 1, Len(lines) - 1)
                /\ sidepc' = "join"
           ELSE /\ lines' = Append(lines, line)
                /\ sidepc' = "reading"
  /\ UNCHANGED << batchvars, text_input, ex_text, ex_urls, nm_url, nm_name >>

\* lines 163-164: input() raises EOFError
ReadEOF ==
  /\ sidepc = "reading"
  /\ stdin = << >>
  /\ sidepc' = "join"
  /\ UNCHANGED << batchvars, stdin, lines, text_input, ex_text, ex_urls, nm_url, nm_name >>

\* "\n".join(ls)
RECURSIVE JoinLines(_)
JoinLines(ls) ==
  IF Len(ls) = 0 THEN << >>
  ELSE IF Len(ls) = 1 THEN ls[1]
  ELSE ls[1] \o << "\n" >> \o JoinLines(Tail(ls))

\* not s.strip(): s has white space only
IsBlank(s) == \A i \in 1..Len(s) : s[i] \in {" ", "\n"}

\* lines 166-175: the lines are joined; a text of white space ends main, any
\* other is passed to extract_github_urls
JoinText ==
  /\ sidepc = "join"
  /\ text_input' = JoinLines(lines)
  /\ IF IsBlank(JoinLines(lines))
       THEN sidepc' = "aborted" /\ UNCHANGED ex_text
       ELSE sidepc' = "extract" /\ ex_text' = JoinLines(lines)
  /\ UNCHANGED << batchvars, stdin, lines, ex_urls, nm_url, nm_name >>

NextInput ==
  \/ ReadLine
  \/ ReadEOF
  \/ JoinText

SpecInput == InitInput /\ [][NextInput]_vars

(***************************************************************************)
(* main, lines 177-236: the URLs are found, the destination folder is      *)
(* looked at, the user picks what to do with an existing one, and the      *)
(* batch runs with the module's cap.                                       *)
(***************************************************************************)
InitMain ==
  /\ SideIdle
  /\ choice = "none"
  /\ finished_order = << >>
  /\ urls \in { S \in SUBSET Universe : S # {} /\ Cardinality(S) <= MaxUrls }
  /\ cap = MAX_WORKERS
  /\ \/ /\ present = {}
        /\ holds = [p \in Paths |-> Nothing]
     \/ \E S \in SUBSET (Paths \ {Root}) :
          /\ present = {Root} \cup S
          /\ holds = [p \in Paths |-> IF p \in S THEN Old ELSE Nothing]
  /\ mainpc = "menu"
  /\ max_workers = 0
  /\ url_list = << >>
  /\ submitted = 0
  /\ queue = << >>
  /\ pc = [u \in urls |-> "unsubmitted"]
  /\ ret = [u \in urls |-> "none"]
  /\ why = [u \in urls |-> "none"]
  /\ started = [u \in urls |-> 0]
  /\ replaced = {}
  /\ snap = {}
  /\ pending = {}
  /\ waiterq = << >>
  /\ yielded = [u \in urls |-> 0]
  /\ successful = 0
  /\ failed = 0
  /\ failed_repos = << >>
  /\ at_entry = {}
  /\ result = NoResult

\* lines 190-236: an existing folder is deleted and made again (option 1) or
\* kept (option 2), a missing one is made; main returns when that fails,
\* and calls download_repositories otherwise
Menu ==
  /\ mainpc = "menu"
  /\ \/ /\ Root \in present
        /\ choice' = "1"
        /\ present' = {Root}
        /\ holds' = [p \in Paths |-> Nothing]
        /\ mainpc' = "entry"
     \/ /\ Root \in present
        /\ choice' = "1"
        /\ mainpc' = "aborted"
        /\ UNCHANGED fsvars
     \/ /\ Root \in present
        /\ choice' = "2"
        /\ mainpc' = "entry"
        /\ UNCHANGED fsvars
     \/ /\ Root \notin present
        /\ present' = {Root}
        /\ mainpc' = "entry"
        /\ UNCHANGED << choice, holds >>
     \/ /\ Root \notin present
        /\ mainpc' = "aborted"
        /\ UNCHANGED << choice, fsvars >>
  /\ UNCHANGED << urls, cap, sidevars, taskvars, max_workers, url_list, submitted, snap,
                  pending, yielded, successful, failed, failed_repos, result, at_entry >>

NextMain ==
  \/ Menu
  \/ Next

SpecMain == InitMain /\ [][NextMain]_vars

(***************************************************************************)
(* Properties.                                                             *)
(***************************************************************************)
Range(q) == { q[i] : i \in 1..Len(q) }

Returned == mainpc = "returned"

\* no directory of the subtree of p holds files of a folder that was there
\* before the batch
NoOldUnder(p) == \A q \in Subtree(p) : holds[q] # Old

\* a name that makes a child of the destination: not empty, not '.' or '..'
ProperName(n) == n \notin { << >>, << "." >>, << ".", "." >> }

\* C1: when download_repositories returns, every URL of the batch has exactly
\* one recorded outcome and successful + failed equals the number of URLs (also
\* for the empty batch); while it runs, no URL has more than one.
C1_OneOutcomePerUrl ==
  /\ \A u \in urls : yielded[u] <= 1
  /\ Returned =>
       /\ \A u \in urls : yielded[u] = 1
       /\ result[1] + result[2] = Cardinality(urls)
       /\ result = << successful, failed, failed_repos >>

\* a batch of two has returned with one success and one failure
C1_Witness ==
  /\ Returned
  /\ Cardinality(urls) = 2
  /\ result[1] = 1
  /\ result[2] = 1

\* C2: clone_repository is never entered twice for a URL, not either after
\* its task failed, and when download_repositories returns it has been entered
\* once for every URL of the batch.
C2_StartedExactlyOnce ==
  /\ \A u \in urls : started[u] <= 1
  /\ Returned => \A u \in urls : started[u] = 1

\* a batch of two has returned, one of its tasks having failed
C2_Witness ==
  /\ Returned
  /\ Cardinality(urls) = 2
  /\ \E u \in urls : ret[u] = "False" /\ started[u] = 1

\* C3: at every point the number of calls of clone_repository that have
\* started and not returned is at most min(W, N), W the cap and N the number
\* of URLs.
C3_CapRespected ==
  /\ Cardinality(Running) <= cap
  /\ Cardinality(Running) <= Cardinality(urls)

\* the cap binds: as many tasks run as the cap allows, and one more is queued
C3_Witness ==
  /\ cap < Cardinality(urls)
  /\ Cardinality(Running) = cap
  /\ queue # << >>

\* C4: when download_repositories returns, every task has finished, none
\* is queued or running, and the outcome of each is in the aggregate (a URL is
\* in failed_repos exactly if its task did not return True).
C4_JoinBarrier ==
  Returned =>
    /\ queue = << >>
    /\ Running = {}
    /\ \A u \in urls : pc[u] = "done"
    /\ \A u \in urls : (ret[u] # "True") <=> (u \in Range(result[3]))
    /\ result[1] = Cardinality({ u \in urls : ret[u] = "True" })

\* a batch of two has returned with both failures in the aggregate
C4_Witness ==
  /\ Returned
  /\ Cardinality(urls) = 2
  /\ Len(result[3]) = 2
  /\ \A u \in urls : pc[u] = "done" /\ ret[u] = "False"

\* C5: when download_repositories returns, every URL whose clone call failed
\* is in failed_repos, and every other URL was started, has its own outcome,
\* and that outcome has no cause in another task: it did not fail because its
\* target vanished under it or was filled by another task.
C5_FailureIsolated ==
  Returned =>
    \A u \in urls :
      why[u] = "remote" =>
        /\ u \in Range(result[3])
        /\ \A v \in urls \ {u} :
             /\ started[v] = 1
             /\ ret[v] \in {"True", "False"}
             /\ why[v] \notin {"vanished", "occupied"}

C7_ReplacedBeforeClone ==
  [][ \A u \in urls :
        (pc[u] = "clone" /\ pc'[u] = "done") =>
          /\ NoOldUnder(repo_path(u))
          /\ ret'[u] = "True" =>
               \A q \in Subtree(repo_path(u)) :
                  holds'[q] = IF q = repo_path(u) THEN u ELSE Nothing ]_vars

\* a single task found its target, removed it and cloned into it
C7_Witness ==
  /\ Cardinality(urls) = 1
  /\ \E u \in replaced :
        /\ repo_path(u) # Root
        /\ ret[u] = "True"
        /\ holds[repo_path(u)] = u

\* C8: the destination root is never removed nor cloned into: it exists,
\* holds nothing of its own, and the path a task is about to remove or to
\* clone into is a proper child of it.
C8_RootUntouched ==
  /\ Root \in present
  /\ holds[Root] = Nothing
  /\ \A u \in urls : pc[u] \in {"rmtree", "clone"} => repo_path(u) # Root

\* C9: when download_repositories returns, every URL of the batch that
\* derives an empty repository name is listed in failed_repos.
C9_EmptyNameFails ==
  Returned =>
    \A u \in urls : extract_repo_name(u) = << >> => u \in Range(result[3])

\* C10 (as claimed): no two tasks in flight have the same target path
\* <destination>/<name>.
C10_TargetsDisjoint ==
  \A u, v \in Running : u # v => repo_path(u) # repo_path(v)

\* C10 (amended): two tasks in flight whose URLs derive different proper
\* names have different target paths, both children of the destination, none
\* under the other; tasks in flight with one target path derive one name.
C10_DistinctNamesDisjoint ==
  \A u, v \in Running :
     /\ u # v
     /\ ProperName(extract_repo_name(u))
     /\ ProperName(extract_repo_name(v))
     => /\ Len(repo_path(u)) = 1
        /\ Len(repo_path(v)) = 1
        /\ (extract_repo_name(u) # extract_repo_name(v)) <=> (repo_path(u) # repo_path(v))

\* two tasks with different names are in flight, one removing, one cloning
C10_Witness ==
  \E u, v \in Running :
     /\ extract_repo_name(u) # extract_repo_name(v)
     /\ ProperName(extract_repo_name(u))
     /\ ProperName(extract_repo_name(v))
     /\ pc[u] = "rmtree"
     /\ pc[v] = "clone"

\* the place of u in the order in which the tasks finished (0: not finished)
FinishedAt(u) ==
  IF \E k \in 1..Len(finished_order) : finished_order[k] = u
    THEN CHOOSE k \in 1..Len(finished_order) : finished_order[k] = u
    ELSE 0

\* C11, as stated: failed_repos holds the failed URLs in the order in which
\* their tasks finished, whatever the sorted input order.
C11_CompletionOrder ==
  \A i, j \in 1..Len(failed_repos) :
    i < j => FinishedAt(failed_repos[i]) < FinishedAt(failed_repos[j])

\* C11, amended: two failed URLs are listed in the order in which their tasks
\* finished unless both tasks had already finished when as_completed was
\* entered; those two are listed in either order.
C11_OrderAfterEntry ==
  \A i, j \in 1..Len(failed_repos) :
    i < j => \/ FinishedAt(failed_repos[i]) < FinishedAt(failed_repos[j])
             \/ {failed_repos[i], failed_repos[j]} \subseteq at_entry

\* two tasks that both finished after as_completed was entered, both failures,
\* are listed against the sorted input order
C11_Witness ==
  /\ Returned
  /\ Len(failed_repos) = 2
  /\ at_entry = {}
  /\ failed_repos[1] = url_list[2]
  /\ failed_repos[2] = url_list[1]

\* l is an initial part of m
IsPrefix(l, m) == Len(l) <= Len(m) /\ \A k \in 1..Len(l) : l[k] = m[k]

\* C12: under every interleaving the aggregate loses no update and applies
\* none twice: a step in which a task ends leaves the counters and the list
\* alone, a step in which a future is collected raises exactly one of the two
\* counters by one (and lists the URL exactly when that counter is failed), no
\* other step changes them, and the counters and the list never shrink.
C12_AggregateSafe ==
  [][ /\ successful' >= successful
      /\ failed' >= failed
      /\ IsPrefix(failed_repos, failed_repos')
      /\ (yielded' = yielded)
           => << successful, failed, failed_repos >>' = << successful, failed, failed_repos >>
      /\ (yielded' # yielded)
           => \/ /\ successful' = successful + 1
                 /\ << failed, failed_repos >>' = << failed, failed_repos >>
              \/ /\ failed' = failed + 1
                 /\ Len(failed_repos') = Len(failed_repos) + 1
                 /\ successful' = successful
    ]_vars

\* one success and one failure were collected from two tasks that both ended
\* while the caller was already iterating
C12_Witness ==
  /\ at_entry = {}
  /\ successful = 1
  /\ failed = 1
  /\ Len(failed_repos) = 1

\* C19: for the empty URL set the call returns (0, 0, []) in its first step,
\* and no step of it sizes a pool, queues or starts a task, or changes what is
\* under the destination.
C19_EmptyBatch ==
  [][ urls = {} =>
        /\ mainpc = "entry" => mainpc' = "returned" /\ result' = << 0, 0, << >> >>
        /\ max_workers' = 0
        /\ queue' = << >>
        /\ submitted' = 0
        /\ Running' = {}
        /\ << present, holds >>' = << present, holds >>
    ]_vars

\* the empty batch has returned (0, 0, []) with folders in the destination
C19_Witness ==
  /\ urls = {}
  /\ mainpc = "returned"
  /\ result = << 0, 0, << >> >>
  /\ present # {Root}
  /\ \E p \in present : holds[p] = Old

\* the task of u ended with an exception
Raised(u) == pc[u] = "done" /\ ret[u] = "raised"

\* C16: a task that ends with an exception does not make download_repositories
\* raise; once its future is collected the URL is counted in failed and listed
\* in failed_repos, the loop goes on, and at the return every other URL of
\* the batch was collected as well.
C16_RaisedIsFailure ==
  /\ mainpc # "propagated"
  /\ \A u \in urls :
        Raised(u) /\ yielded[u] = 1 =>
          /\ failed >= 1
          /\ \E k \in 1..Len(failed_repos) : failed_repos[k] = u
  /\ Returned /\ (\E u \in urls : Raised(u)) =>
        /\ \A v \in urls : yielded[v] = 1 /\ pc[v] = "done"
        /\ successful + failed = Cardinality(urls)
        /\ \A v \in urls : ret[v] = "True" => v \notin Range(failed_repos)

\* a batch returned in which the task that finished first ended with an
\* exception and is the one listed, and the other task cloned its repository
C16_Witness ==
  /\ Returned
  /\ successful = 1
  /\ failed = 1
  /\ \E u, v \in urls :
        /\ Raised(u)
        /\ ret[v] = "True"
        /\ failed_repos = << u >>
        /\ finished_order = << u, v >>

\* C20, as stated: in every state failed is the length of failed_repos, the
\* list has no duplicate and holds only submitted URLs, and a URL is in it
\* exactly if its task returned False or raised.
C20_ListedIffFailed ==
  /\ failed = Len(failed_repos)
  /\ \A i, j \in 1..Len(failed_repos) : i # j => failed_repos[i] # failed_repos[j]
  /\ \A u \in Range(failed_repos) : u \in urls /\ pc[u] # "unsubmitted"
  /\ \A u \in urls : u \in Range(failed_repos) <=> ret[u] \in {"False", "raised"}

\* C20, amended: in every state failed is the length of failed_repos, the
\* list has no duplicate and holds only submitted URLs, a listed URL is one
\* whose task returned False or raised, and a URL whose task returned False or
\* raised is listed from the iteration that collects its future on, hence in
\* the returned result; a URL whose task returned True is never listed.
C20_ListedIffCollectedFailed ==
  /\ failed = Len(failed_repos)
  /\ \A i, j \in 1..Len(failed_repos) : i # j => failed_repos[i] # failed_repos[j]
  /\ \A u \in Range(failed_repos) : u \in urls /\ pc[u] # "unsubmitted"
  /\ \A u \in urls :
        u \in Range(failed_repos) <=> yielded[u] = 1 /\ ret[u] \in {"False", "raised"}
  /\ Returned =>
        /\ result = << successful, failed, failed_repos >>
        /\ \A u \in urls : u \in Range(result[3]) <=> ret[u] \in {"False", "raised"}

\* a batch returned with one URL listed because its task returned False and
\* one because its task raised
C20_Witness ==
  /\ Returned
  /\ result[2] = 2
  /\ \E u, v \in Range(result[3]) : ret[u] = "False" /\ ret[v] = "raised"

\* C15: under fair scheduling, and every step of a clone call ending, every
\* call of download_repositories returns, and every queued task is started,
\* also when there are more URLs than threads and whatever the other tasks
\* end with.
C15_BatchTerminates ==
  /\ <>(mainpc = "returned")
  /\ \A u \in Universe :
        (u \in urls /\ pc[u] = "queued") ~> (u \in urls /\ started[u] = 1)

\* a batch of more URLs than threads returned, its first task having failed
C15_Witness ==
  /\ mainpc = "returned"
  /\ max_workers < Cardinality(urls)
  /\ Len(finished_order) = 2
  /\ ret[finished_order[1]] = "False"
  /\ started[finished_order[2]] = 1

\* s without its trailing c's, said without a recursion: the longest initial
\* part of s that does not end with c
Stripped(s, c) ==
  LET k == CHOOSE n \in 0..Len(s) :
             /\ n = 0 \/ s[n] # c
             /\ \A i \in (n + 1)..Len(s) : s[i] = c
  IN  SubSeq(s, 1, k)

\* name is what follows the last "/" of s (all of s when it has none)
AfterLastSlash(s, name) ==
  /\ \A i \in 1..Len(name) : name[i] # "/"
  /\ Len(name) <= Len(s)
  /\ SubSeq(s, Len(s) - Len(name) + 1, Len(s)) = name
  /\ Len(name) = Len(s) \/ s[Len(s) - Len(name)] = "/"

\* C13: extract_repo_name(url) is what follows the last "/" once the trailing
\* "/" and then one trailing ".git" are taken off url; it is "b" for
\* https://github.com/a/b.git, https://github.com/a/b/ and
\* https://github.com/a/b; the call changes nothing but its result.
C13_NameIsLastSegment ==
  sidepc = "name_done" =>
    /\ LET s1 == Stripped(nm_url, "/")
           s2 == IF Len(s1) >= 4 /\ SubSeq(s1, Len(s1) - 3, Len(s1)) = DotGit
                   THEN SubSeq(s1, 1, Len(s1) - 4)
                   ELSE s1
       IN  AfterLastSlash(s2, nm_name)
    /\ nm_url \in { Https \o << "a", "/", "b" >> \o DotGit,
                     Https \o << "a", "/", "b", "/" >>,
                     Https \o << "a", "/", "b" >> } => nm_name = << "b" >>
    /\ BatchIdle

\* the name of https://github.com/a/b.git/ was derived: the slash goes first,
\* then the suffix
C13_Witness ==
  /\ sidepc = "name_done"
  /\ nm_url = Https \o << "a", "/", "b" >> \o DotGit \o << "/" >>
  /\ nm_name = << "b" >>

\* s is http(s)://github.com/<owner>/<repo>, owner and repo two path
\* segments: not empty, without "/", white space, quote or parenthesis
TwoSegmentUrl(s) ==
  \E host \in {Http, Https} :
    /\ StartsWith(s, host)
    /\ \E k \in (Len(host) + 2)..(Len(s) - 1) :
          /\ s[k] = "/"
          /\ \A i \in (Len(host) + 1)..Len(s) :
                /\ i # k => s[i] # "/"
                /\ ~IsSpace(s[i])
                /\ s[i] \notin {")", "\"", "'"}

\* the substring of t from i to e is followed by white space, a closing
\* quote or parenthesis, or the end of the text
EndsProperly(t, e) == e = Len(t) \/ IsSpace(t[e + 1]) \/ t[e + 1] \in {")", "\"", "'"}

\* C14, as stated: the returned set is exactly the set of the substrings
\* http(s)://github.com/<owner>/<repo>[.git] of two path segments that end at
\* white space, at a closing quote or parenthesis, or at the end of the text.
C14_ExactlyTwoSegmentUrls ==
  sidepc = "extract_done" =>
    ex_urls = { s \in { SubSeq(ex_text, i, e) : i, e \in 1..Len(ex_text) } :
                  /\ TwoSegmentUrl(s)
                  /\ \E i \in 1..Len(ex_text) :
                        /\ HasAt(ex_text, i, s)
                        /\ EndsProperly(ex_text, i + Len(s) - 1) }

\* a line of the pasted text has been read
HasText(ls) == \E i \in 1..Len(ls) : ~IsBlank(ls[i])

\* the lines ls have a line after an empty line that follows text
LineAfterBlank(ls) ==
  \E i, j, k \in 1..Len(ls) :
     i < j /\ j < k /\ ~IsBlank(ls[i]) /\ ls[j] = EmptyLine

\* C17, as stated: when an empty line is read after text the loop stops
\* reading, and the text passed to extract_github_urls has no line after an
\* empty line that follows text.
C17_BlankLineEnds ==
  [][ /\ (sidepc = "reading" /\ stdin # << >> /\ Head(stdin) = EmptyLine /\ HasText(lines))
          => sidepc' # "reading"
      /\ sidepc' = "extract" => ~LineAfterBlank(lines')
    ]_vars

\* the subdirectories named after no URL of the batch
Unrelated == { p \in Paths \ {Root} : \A u \in urls : repo_path(u) # p }

\* C18, as stated: once option 2 is picked the destination folder is never
\* deleted, and every subdirectory of before the batch that is named after
\* no submitted URL stays as it was.
C18_KeepExisting ==
  [][ choice' = "2" =>
        /\ Root \in present => Root \in present'
        /\ \A p \in Unrelated :
              p \in present /\ holds[p] = Old => p \in present' /\ holds'[p] = Old
    ]_vars

====
